---------------------------- MODULE Spec2Model ----------------------------
(***************************************************************************)
(* A model of markov_music.py: the Note value type, the quantizer          *)
(* (Note.rounded / round_list), training (add_to_map), generation          *)
(* (generate / pick) and the driver run() with write_to_file().            *)
(*                                                                         *)
(* Python values are represented as follows.                               *)
(*   - A Note is a record with the eight attributes of the class and a     *)
(*     tag kind = "Note"; Python's None inside a list of notes is the      *)
(*     record PyNone (kind = "None").                                      *)
(*   - An optional constructor argument (weights, max_measures) is a       *)
(*     record [is_none, val].                                              *)
(*   - A dict is the sequence of its entries [key, val] in insertion       *)
(*     order; a key is found by tuple equality, which is element-wise      *)
(*     Note.__eq__ (Note.__hash__ is computed from the same seven fields   *)
(*     as __eq__, so hashing never separates two equal keys).              *)
(*   - A weight is a Python float; the model draws weights from small      *)
(*     integers, which floats represent and add exactly.                   *)
(***************************************************************************)
EXTENDS Integers, Sequences, FiniteSets, TLC

VARIABLES
    files,          \* what decoding each input file yields (the environment)
    weights,        \* self.weights
    order,          \* self.order
    max_measures,   \* self.max_measures
    option_map,     \* self.option_map
    count_map,      \* self.count_map
    resolution,     \* self.resolution
    time_signature, \* <<self.time_signature_numerator, self.time_signature_denominator>>
    output,         \* self.output
    pc,             \* position of run()
    idx,            \* number of files already ingested by the loop of run()
    current,        \* local list of generate()
    accumulated_ticks, \* local of generate()
    measures,       \* local of generate()
    lookups,        \* lengths of the windows looked up by the last iteration of generate()
    exit_by,        \* how the main loop of generate() was left
    reached,        \* which of add_to_map / generate / write_to_file run() has called
    rand_used,      \* whether the random module has been drawn from
    written,        \* whether write_to_file() saved a MIDI file
    reported        \* whether run() printed the weight-count error

vars == <<files, weights, order, max_measures, option_map, count_map, resolution,
          time_signature, output, pc, idx, current, accumulated_ticks, measures,
          lookups, exit_by, reached, rand_used, written, reported>>

-----------------------------------------------------------------------------
(* Bounds of the model *)

MaxFiles == 2
MaxNotes == 3
MaxOut == 4

-----------------------------------------------------------------------------
(* Constants of MarkovMusic.__init__ *)

velocity_rounding == 40
duration_rounding == 2000
tempo_rounding == 1000000000
default_tempo == 500001
default_order == 3

Max(a, b) == IF a >= b THEN a ELSE b
Min(a, b) == IF a <= b THEN a ELSE b

-----------------------------------------------------------------------------
(* class Note *)

PyNone == [kind |-> "None"]

IsNone(x) == x.kind = "None"

Note(key, start_velocity, end_velocity, note_duration, next_note_delay, tempo, instrument, timestamp) ==
    [kind |-> "Note", key |-> key, start_velocity |-> start_velocity,
     end_velocity |-> end_velocity, note_duration |-> note_duration,
     next_note_delay |-> next_note_delay, tempo |-> tempo,
     instrument |-> instrument, timestamp |-> timestamp]

\* Note.__eq__(self, other): self is a Note
NoteEq(self, other) ==
    /\ ~IsNone(other)
    /\ self.key = other.key
    /\ self.start_velocity = other.start_velocity
    /\ self.end_velocity = other.end_velocity
    /\ self.note_duration = other.note_duration
    /\ self.next_note_delay = other.next_note_delay
    /\ self.tempo = other.tempo
    /\ self.instrument = other.instrument

\* Python's a == b for two values that are each a Note or None: None equals
\* only None; for a Note on either side Note.__eq__ decides (reflected when
\* the left operand is None).
PyEq(a, b) ==
    IF IsNone(a) THEN IsNone(b)
    ELSE NoteEq(a, b)

\* Note.rounded
rounded(self, velocity_rounding_, duration_rounding_, tempo_rounding_) ==
    Note(self.key,
         self.start_velocity - (self.start_velocity % velocity_rounding_),
         self.end_velocity - (self.end_velocity % velocity_rounding_),
         self.note_duration - (self.note_duration % duration_rounding_),
         self.next_note_delay - (self.next_note_delay % duration_rounding_),
         self.tempo - (self.tempo % tempo_rounding_),
         self.instrument,
         self.timestamp)

\* MarkovMusic.round_list
round_list(list_of_notes) ==
    [i \in 1..Len(list_of_notes) |->
        IF ~IsNone(list_of_notes[i])
        THEN rounded(list_of_notes[i], velocity_rounding, duration_rounding,
                     tempo_rounding)
        ELSE PyNone]

-----------------------------------------------------------------------------
(* dict and list primitives *)

\* equality of two tuples of notes (the keys of option_map / count_map)
TupleEq(s, t) ==
    /\ Len(s) = Len(t)
    /\ \A i \in 1..Len(s) : PyEq(s[i], t[i])

\* position of key k in dict d, 0 when absent (k in d)
Find(d, k) ==
    IF \E p \in 1..Len(d) : TupleEq(d[p].key, k)
    THEN CHOOSE p \in 1..Len(d) : TupleEq(d[p].key, k)
    ELSE 0

\* list.index(x): the first position whose element equals x, 0 for ValueError
Index(list, x) ==
    IF \E p \in 1..Len(list) : PyEq(list[p], x)
    THEN CHOOSE p \in 1..Len(list) :
            /\ PyEq(list[p], x)
            /\ \A q \in 1..(p - 1) : ~PyEq(list[q], x)
    ELSE 0


-----------------------------------------------------------------------------
(* MarkovMusic.add_to_map; the pair of dicts is the record                  *)
(* [option_map, count_map]                                                  *)

\* A plausible slip: a repeated observation is appended as a new entry
\* instead of accumulating on the entry found by index().
ObserveAlwaysAppends(m, n, s2, weight) ==
    LET present == Find(m.option_map, n) # 0
        m1 == IF present THEN m
              ELSE [option_map |-> Append(m.option_map, [key |-> n, val |-> <<>>]),
                    count_map |-> Append(m.count_map, [key |-> n, val |-> <<>>])]
        po == Find(m1.option_map, n)
        pc_ == Find(m1.count_map, n)
    IN  [option_map |-> [m1.option_map EXCEPT ![po].val = Append(@, s2)],
         count_map |-> [m1.count_map EXCEPT ![pc_].val = Append(@, weight)]]

\* A plausible slip: the count is overwritten instead of increased.
ObserveOverwrites(m, n, s2, weight) ==
    LET present == Find(m.option_map, n) # 0
        m1 == IF present THEN m
              ELSE [option_map |-> Append(m.option_map, [key |-> n, val |-> <<>>]),
                    count_map |-> Append(m.count_map, [key |-> n, val |-> <<>>])]
        po == Find(m1.option_map, n)
        pc_ == Find(m1.count_map, n)
        pos == Index(m1.option_map[po].val, s2)
    IN  IF pos # 0
        THEN [m1 EXCEPT !.count_map[pc_].val[pos] = weight]
        ELSE [option_map |-> [m1.option_map EXCEPT ![po].val = Append(@, s2)],
              count_map |-> [m1.count_map EXCEPT ![pc_].val = Append(@, weight)]]

\* lines 243-255: one observation (context n, continuation s2)
Observe(m, n, s2, weight) ==
    LET present == Find(m.option_map, n) # 0
        m1 == IF present THEN m
              ELSE [option_map |-> Append(m.option_map, [key |-> n, val |-> <<>>]),
                    count_map |-> Append(m.count_map, [key |-> n, val |-> <<>>])]
        po == Find(m1.option_map, n)
        pc_ == Find(m1.count_map, n)
        option_list == m1.option_map[po].val
        pos == Index(option_list, s2)
    IN  IF pos # 0
        THEN [m1 EXCEPT !.count_map[pc_].val[pos] = @ + weight]
        ELSE [option_map |-> [m1.option_map EXCEPT ![po].val = Append(@, s2)],
              count_map |-> [m1.count_map EXCEPT ![pc_].val = Append(@, weight)]]

\* A plausible slip: a final note records no end-of-sequence marker but
\* wraps around to the first note.
ContinuationWraps(notes, i) ==
    IF i = Len(notes) THEN notes[1] ELSE notes[i + 1]

\* lines 239-242: the continuation of position i (1-based)
Continuation(notes, i) ==
    IF i = Len(notes) THEN PyNone ELSE notes[i + 1]

\* line 236: the exclusive lower end of the inner range.  In the 0-based
\* source j runs over range(i, max(i - order, -1), -1); with 1-based i and j
\* it runs from i down to InnerStop(i, order) + 1.
InnerStop(i, order_) == Max(i - order_, 0)

\* In both loops the values handed on (the context n, the continuation s2,
\* the maps after an iteration) are bound as the element of a singleton set,
\* so that each is computed once.
RECURSIVE InnerLoop(_, _, _, _, _, _)
\* lines 236-255 for one i
InnerLoop(m, notes, weight, order_, i, j) ==
    IF j <= InnerStop(i, order_) THEN m
    ELSE CHOOSE r \in
            {InnerLoop(m2, notes, weight, order_, i, j - 1) :
                m2 \in {Observe(m, n, s2, weight) :
                            n \in {round_list(SubSeq(notes, j, i))},
                            s2 \in {Continuation(notes, i)}}} : TRUE

RECURSIVE OuterLoop(_, _, _, _, _)
\* lines 234-255 from position i on
OuterLoop(m, notes, weight, order_, i) ==
    IF i > Len(notes) THEN m
    ELSE CHOOSE r \in
            {OuterLoop(m2, notes, weight, order_, i + 1) :
                m2 \in {InnerLoop(m, notes, weight, order_, i, i)}} : TRUE

add_to_map(m, notes, weight, order_) == OuterLoop(m, notes, weight, order_, 1)

EmptyMaps == [option_map |-> <<>>, count_map |-> <<>>]

-----------------------------------------------------------------------------
(* MarkovMusic.read_input.  A file is what the MIDI decoder yields for it:  *)
(* [readable, ticks_per_beat, time_signature, events], events being the     *)
(* note-on/note-off pairs of its tracks in file order and time_signature    *)
(* a time_signature message at tick 0 of a track that holds notes (<<>>     *)
(* when the file has none): parse_track applies it when it reaches the      *)
(* first note of that track (lines 211-219).                                *)

\* parse_track lines 156-165 and 183-210 for a file without tempo or
\* program changes
ParsedNote(e) ==
    Note(e.key, e.start_velocity, e.end_velocity, e.note_duration,
         e.timestamp, default_tempo, 0, e.timestamp)

RECURSIVE InsertByTimestamp(_, _)
\* n placed behind every element whose timestamp is <= its own (stable)
InsertByTimestamp(sorted, n) ==
    IF sorted = <<>> \/ sorted[Len(sorted)].timestamp <= n.timestamp
    THEN Append(sorted, n)
    ELSE Append(InsertByTimestamp(SubSeq(sorted, 1, Len(sorted) - 1), n),
                sorted[Len(sorted)])

RECURSIVE SortByTimestamp(_)
\* list.sort(key=lambda x: x.timestamp), lines 129 and 180
SortByTimestamp(s) ==
    IF s = <<>> THEN <<>>
    ELSE InsertByTimestamp(SortByTimestamp(SubSeq(s, 1, Len(s) - 1)), s[Len(s)])

\* lines 130-132
SetDelays(merged_tracks) ==
    [i \in 1..Len(merged_tracks) |->
        IF i < Len(merged_tracks)
        THEN [merged_tracks[i] EXCEPT !.next_note_delay =
                  merged_tracks[i + 1].timestamp - merged_tracks[i].timestamp]
        ELSE merged_tracks[i]]

\* the list read_input returns
read_input(file) ==
    IF ~file.readable THEN <<>>
    ELSE SetDelays(SortByTimestamp([i \in 1..Len(file.events) |->
                                        ParsedNote(file.events[i])]))


-----------------------------------------------------------------------------
(* MarkovMusic.generate and MarkovMusic.pick *)

RECURSIVE Sum(_)
\* the total of the weights handed to random.choices
Sum(counts) ==
    IF counts = <<>> THEN 0
    ELSE counts[Len(counts)] + Sum(SubSeq(counts, 1, Len(counts) - 1))

\* random.choices(options, weights=counts, k=1) raises ValueError when the
\* total of the weights is not greater than zero
PickRaises(counts) == Sum(counts) <= 0

\* the positions random.choices can return: with non-negative weights
\* exactly those of positive weight (a bisection of the cumulative weights
\* with a point of [0, total)); with a negative weight the cumulative list
\* is not sorted and the bisection may end anywhere
PickPositions(counts) ==
    IF \A p \in 1..Len(counts) : counts[p] >= 0
    THEN {p \in 1..Len(counts) : counts[p] > 0}
    ELSE 1..Len(counts)

\* current[len(current) - L:], the window of the last L elements
Suffix(list, L) == SubSeq(list, Len(list) - L + 1, Len(list))

\* A plausible slip: the window may reach one element further back.
lowestOffByOne(current_, order_) == Max(0, Len(current_) - order_ - 1)

\* line 273
lowest(current_, order_) == Max(0, Len(current_) - order_)

\* lines 276-277: the lengths of the windows current[lowest + i:] in the
\* order the for loop builds them
WindowLengths(current_, order_) ==
    LET n == Len(current_) - lowest(current_, order_)
    IN  [i \in 1..n |-> n - (i - 1)]

\* line 278
Matches(om, current_, L) == Find(om, round_list(Suffix(current_, L))) # 0

\* lines 276-280: the position, in WindowLengths, of the window the for loop
\* breaks at; 0 when it runs to its end
UsedIndex(om, current_, order_) ==
    LET w == WindowLengths(current_, order_)
    IN  IF \E i \in 1..Len(w) : Matches(om, current_, w[i])
        THEN CHOOSE i \in 1..Len(w) :
                /\ Matches(om, current_, w[i])
                /\ \A k \in 1..(i - 1) : ~Matches(om, current_, w[k])
        ELSE 0

\* lines 266-269 and 288: accumulated_ticks >= ticks_per_measure * (measures + 1)
\* with ticks_per_measure = ticks_per_beat * beats_per_measure * (4 / beat_value);
\* both sides are multiplied by beat_value to stay in the integers
Crossed(ticks, measures_, resolution_, time_signature_) ==
    ticks * time_signature_[2]
        >= resolution_ * time_signature_[1] * 4 * (measures_ + 1)

\* lines 288-289
MeasuresAfter(ticks, measures_, resolution_, time_signature_) ==
    IF Crossed(ticks, measures_, resolution_, time_signature_)
    THEN measures_ + 1
    ELSE measures_

\* lines 288-293: whether the iteration ends in the break of line 293
CapReached(ticks, measures_, resolution_, time_signature_, max_measures_) ==
    /\ Crossed(ticks, measures_, resolution_, time_signature_)
    /\ ~max_measures_.is_none
    /\ measures_ + 1 >= max_measures_.val

-----------------------------------------------------------------------------
(* Inputs *)

\* an optional argument: None for max_measures, NoWeights for weights
None == [is_none |-> TRUE, val |-> 0]
NoWeights == [is_none |-> TRUE, val |-> <<>>]
Some(v) == [is_none |-> FALSE, val |-> v]

Event(key, start_velocity, end_velocity, note_duration, timestamp) ==
    [key |-> key, start_velocity |-> start_velocity, end_velocity |-> end_velocity,
     note_duration |-> note_duration, timestamp |-> timestamp]

SeqsUpTo(S, n) == UNION {[1..k -> S] : k \in 0..n}

Unreadable == [readable |-> FALSE, ticks_per_beat |-> 0, time_signature |-> <<>>,
               events |-> <<>>]

\* the event lists of at most n events of E
EventLists(E, n) == SeqsUpTo(E, n)

\* those in time order: what a file with a single track yields
OrderedEventLists(E, n) ==
    {ev \in SeqsUpTo(E, n) :
        \A i \in 1..(Len(ev) - 1) : ev[i].timestamp <= ev[i + 1].timestamp}

\* the readable files with the event lists L
Files(L, tpb, sigs) ==
    {[readable |-> TRUE, ticks_per_beat |-> tpb, time_signature |-> sg, events |-> ev] :
        sg \in sigs, ev \in L}

\* one pitch on a grid of onsets that is 0, 1 or 3 measures of 4/4 at 250
\* ticks per beat: delays of 0, 1, 2 and 3 measures; a file either keeps
\* the default 4/4 or sets 6/8 (a measure of 750 ticks)
RunEvents == {Event(60, 64, 64, 240, t) : t \in {0, 1000, 3000}}
RunFiles ==
    Files(OrderedEventLists(RunEvents, MaxNotes), 250, {<<>>, <<6, 8>>}) \cup {Unreadable}
RunWeights == {NoWeights} \cup {Some(w) : w \in SeqsUpTo({0, 1}, MaxFiles) \ {<<>>}}
RunOrders == {0, 1, 2}
RunMaxMeasures == {None, Some(1), Some(2)}

InitWith(F, W, O, M) ==
    /\ files \in F
    /\ weights \in W
    /\ order \in O
    /\ max_measures \in M
    /\ option_map = <<>>
    /\ count_map = <<>>
    /\ resolution = 0
    /\ time_signature = <<4, 4>>
    /\ output = <<>>
    /\ pc = "run"
    /\ idx = 0
    /\ current = <<>>
    /\ accumulated_ticks = 0
    /\ measures = 0
    /\ lookups = <<>>
    /\ exit_by = "none"
    /\ reached = {}
    /\ rand_used = FALSE
    /\ written = FALSE
    /\ reported = FALSE

Init == InitWith(SeqsUpTo(RunFiles, MaxFiles), RunWeights, RunOrders, RunMaxMeasures)

-----------------------------------------------------------------------------
(* MarkovMusic.run *)

\* lines 92-99
RunStart ==
    /\ pc = "run"
    /\ output' = <<>>
    /\ option_map' = <<>>
    /\ count_map' = <<>>
    /\ IF weights.is_none
       THEN /\ weights' = Some([i \in 1..Len(files) |-> 1])
            /\ pc' = "train"
            /\ reported' = reported
       ELSE IF Len(weights.val) # Len(files)
       THEN /\ reported' = TRUE
            /\ pc' = "done"
            /\ weights' = weights
       ELSE /\ pc' = "train"
            /\ UNCHANGED <<weights, reported>>
    /\ UNCHANGED <<files, order, max_measures, resolution, time_signature, idx,
                   current, accumulated_ticks, measures, lookups, exit_by, reached,
                   rand_used, written>>

\* lines 100-107: one iteration of the loop over the files
TrainFile ==
    /\ pc = "train"
    /\ idx < Len(files)
    /\ \E notes \in {read_input(files[idx + 1])} :
       \E m \in {add_to_map([option_map |-> option_map, count_map |-> count_map],
                            notes, weights.val[idx + 1], order)} :
          LET file == files[idx + 1]
          IN  /\ resolution' = IF file.readable THEN file.ticks_per_beat ELSE resolution
              /\ time_signature' = IF file.readable /\ notes # <<>>
                                          /\ file.time_signature # <<>>
                                   THEN file.time_signature
                                   ELSE time_signature
              /\ option_map' = m.option_map
              /\ count_map' = m.count_map
    /\ reached' = reached \cup {"add_to_map"}
    /\ idx' = idx + 1
    /\ UNCHANGED <<files, weights, order, max_measures, output, pc, current,
                   accumulated_ticks, measures, lookups, exit_by, rand_used, written,
                   reported>>

\* line 110 and lines 258-269: the call of generate() up to its main loop
GenerateStart ==
    /\ pc = "train"
    /\ idx = Len(files)
    /\ reached' = reached \cup {"generate"}
    /\ accumulated_ticks' = 0
    /\ measures' = 0
    /\ IF option_map = <<>>
       THEN /\ output' = <<>>
            /\ pc' = "write"
            /\ UNCHANGED <<current, rand_used>>
       ELSE /\ \E e \in 1..Len(option_map) :
                \E p \in 1..Len(option_map[e].val) :
                    current' = <<option_map[e].val[p]>>
            /\ rand_used' = TRUE
            /\ pc' = "loop"
            /\ output' = output
    /\ UNCHANGED <<files, weights, order, max_measures, option_map, count_map,
                   resolution, time_signature, idx, lookups, exit_by, written,
                   reported>>

\* current[-order:], the elements a later iteration can read (line 273)
LastOrder(list, order_) == Suffix(list, Min(Len(list), Max(order_, 0)))

\* lines 271-294: one iteration of the main loop of generate(), and the
\* return when it breaks.  P restricts the positions pick() may return.
\* With tail_only, only what the control flow of later iterations reads is
\* kept: the last order elements of current, and neither accumulated_ticks
\* nor measures (read only under a max_measures cap).  The locals w, u, use,
\* options, counts, add, ticks are bound as elements of singleton sets.
Iteration(tail_only, P) ==
    /\ pc = "loop"
    /\ \E w \in {WindowLengths(current, order)} :
       \E u \in {UsedIndex(option_map, current, order)} :
           IF u = 0
           THEN \* no window matched: add stays None, line 282
                /\ lookups' = w
                /\ exit_by' = "no_match"
                /\ output' = current
                /\ pc' = "write"
                /\ UNCHANGED <<current, accumulated_ticks, measures, rand_used>>
           ELSE \E use \in {round_list(Suffix(current, w[u]))} :
                \E options \in {option_map[Find(option_map, use)].val} :
                \E counts \in {count_map[Find(count_map, use)].val} :
                    /\ lookups' = SubSeq(w, 1, u)
                    /\ rand_used' = TRUE
                    /\ IF PickRaises(counts)
                       THEN /\ pc' = "crashed"
                            /\ UNCHANGED <<current, accumulated_ticks, measures,
                                           exit_by, output>>
                       ELSE \E p \in PickPositions(counts) \cap P :
                            \E add \in {options[p]} :
                                IF IsNone(add)
                                THEN /\ exit_by' = "terminal"
                                     /\ output' = current
                                     /\ pc' = "write"
                                     /\ UNCHANGED <<current, accumulated_ticks,
                                                    measures>>
                                ELSE \E ticks \in {accumulated_ticks + add.next_note_delay} :
                                     \E cap \in {CapReached(ticks, measures, resolution,
                                                            time_signature, max_measures)} :
                                         /\ current' =
                                               IF tail_only
                                               THEN LastOrder(Append(current, add), order)
                                               ELSE Append(current, add)
                                         /\ accumulated_ticks' =
                                               IF tail_only THEN accumulated_ticks
                                               ELSE ticks
                                         /\ measures' =
                                               IF tail_only THEN measures
                                               ELSE MeasuresAfter(ticks, measures,
                                                        resolution, time_signature)
                                         /\ exit_by' = IF cap THEN "max_measures"
                                                       ELSE exit_by
                                         /\ output' = IF cap THEN current' ELSE output
                                         /\ pc' = IF cap THEN "write" ELSE "loop"
    /\ UNCHANGED <<files, weights, order, max_measures, option_map, count_map,
                   resolution, time_signature, idx, reached, written, reported>>

\* an iteration of the main loop while the output has fewer than MaxOut notes
GenerateStep ==
    /\ Len(current) < MaxOut
    /\ Iteration(FALSE, Nat)

\* an iteration of the main loop of a run without max_measures, however
\* long the output has grown
GenerateStepTail ==
    /\ max_measures.is_none
    /\ Iteration(TRUE, Nat)

\* A plausible slip: the guard is missing.
NothingToWriteNever(output_) == FALSE

\* line 300: not self.output
NothingToWrite(output_) == output_ = <<>>

\* lines 112 and 299-393
WriteToFile ==
    /\ pc = "write"
    /\ reached' = reached \cup {"write_to_file"}
    /\ IF NothingToWrite(output)
       THEN /\ pc' = "done"
            /\ written' = FALSE
       ELSE IF \E i \in 1..Len(output) : IsNone(output[i])
       THEN \* line 342 reads i.tempo of None: AttributeError before save()
            /\ pc' = "crashed"
            /\ written' = FALSE
       ELSE /\ pc' = "done"
            /\ written' = TRUE
    /\ UNCHANGED <<files, weights, order, max_measures, option_map, count_map,
                   resolution, time_signature, output, idx, current,
                   accumulated_ticks, measures, lookups, exit_by, rand_used,
                   reported>>

Next == RunStart \/ TrainFile \/ GenerateStart \/ GenerateStep \/ WriteToFile

Spec == Init /\ [][Next]_vars


-----------------------------------------------------------------------------
(* Properties of run() *)

\* the notes each ingested file contributed
Ingested == [f \in 1..idx |-> read_input(files[f])]

\* C1: the list generate() returns is non-empty whenever option_map is
\* non-empty, and no element of it, the seed included, is the terminal
\* marker None.
C1_OutputConcrete ==
    (pc = "write") =>
        /\ (option_map # <<>> => output # <<>>)
        /\ \A i \in 1..Len(output) : ~IsNone(output[i])

\* C2: every context key of option_map has a non-empty continuation list
\* and every count stored for it is strictly positive.
C2_PositiveCounts ==
    /\ \A e \in 1..Len(option_map) : option_map[e].val # <<>>
    /\ \A e \in 1..Len(count_map) :
          \A p \in 1..Len(count_map[e].val) : count_map[e].val[p] > 0

\* the configuration errors of the specification
WeightMismatch == ~weights.is_none /\ Len(weights.val) # Len(files)
NonPositiveWeight ==
    ~weights.is_none /\ \E i \in 1..Len(weights.val) : weights.val[i] <= 0
NonPositiveOrder == order <= 0
ConfigError == WeightMismatch \/ NonPositiveWeight \/ NonPositiveOrder

\* C3: with a weight-count mismatch, a non-positive weight or a
\* non-positive order, run() never reaches add_to_map, generate or
\* write_to_file and both maps stay empty.
C3_ConfigErrorStops ==
    ConfigError => (reached = {} /\ option_map = <<>> /\ count_map = <<>>)

\* the list the last iteration of the main loop started from
Before ==
    IF pc = "loop" \/ exit_by = "max_measures"
    THEN SubSeq(current, 1, Len(current) - 1)
    ELSE current

\* C5: an iteration of the main loop looks up the suffixes of the current
\* output from length min(order, len(current)) downwards, one by one, none
\* longer than order; every window it passed over is absent from
\* option_map, and it stops at the first one present, which it samples from.
C5_LongestSuffixFirst ==
    (lookups # <<>>) =>
        LET n == Min(order, Len(Before))
            last == lookups[Len(lookups)]
        IN  /\ \A i \in 1..Len(lookups) :
                  /\ lookups[i] = n - (i - 1)
                  /\ lookups[i] >= 1
                  /\ lookups[i] <= order
            /\ \A i \in 1..(Len(lookups) - 1) :
                  ~Matches(option_map, Before, lookups[i])
            /\ IF exit_by = "no_match"
               THEN last = 1 /\ ~Matches(option_map, Before, last)
               ELSE Matches(option_map, Before, last)

\* the case of C5 where order, not the length of the output, limits the window
C5_Witness ==
    /\ pc = "loop"
    /\ order = 2
    /\ Len(current) = 4
    /\ lookups = <<2>>

\* ticks_per_measure * k <= ticks, in the integers
ReachedMultiple(ticks, k) ==
    ticks * time_signature[2] >= resolution * time_signature[1] * 4 * k

\* C6: after every appended note the measure counter is the number of
\* multiples of ticks_per_measure that accumulated_ticks has reached, and
\* with max_measures = M >= 1 no iteration starts once accumulated_ticks has
\* reached M * ticks_per_measure.
C6_MeasureCounter ==
    (pc \in {"loop", "write", "done"} /\ current # <<>>) =>
        /\ ReachedMultiple(accumulated_ticks, measures)
        /\ ~ReachedMultiple(accumulated_ticks, measures + 1)
        /\ (pc = "loop" /\ ~max_measures.is_none /\ max_measures.val >= 1)
              => ~ReachedMultiple(accumulated_ticks, max_measures.val)

\* every source yields zero notes
NoNotes == \A f \in 1..Len(files) : read_input(files[f]) = <<>>

\* C8: when no source yields a note, both maps are empty after training,
\* generate() returns the empty list without drawing from the random
\* source and without raising, and write_to_file() writes nothing.
C8_EmptyModel ==
    NoNotes =>
        /\ option_map = <<>>
        /\ count_map = <<>>
        /\ output = <<>>
        /\ current = <<>>
        /\ ~rand_used
        /\ ~written
        /\ pc \notin {"loop", "crashed"}

\* a run over an unreadable and an empty file that went through generate()
\* and write_to_file()
C8_Witness ==
    /\ NoNotes
    /\ Len(files) = 2
    /\ \E f \in 1..2 : ~files[f].readable
    /\ \E f \in 1..2 : files[f].readable
    /\ pc = "done"
    /\ {"generate", "write_to_file"} \subseteq reached

\* C9: with order >= 1 every concrete note of the output has its length-1
\* quantized context among the keys of option_map, and the main loop is
\* never left because no window matched.
C9_AlwaysMatches ==
    (order >= 1) =>
        /\ \A i \in 1..Len(current) :
              ~IsNone(current[i]) =>
                  Find(option_map, round_list(<<current[i]>>)) # 0
        /\ exit_by # "no_match"


-----------------------------------------------------------------------------
(* Training alone: run() up to the end of its loop over the files, on       *)
(* files of two pitches                                                     *)

MaxTrainNotes == 3

\* two pitches, onsets 0 and 480: the delays 0 and 480 fall into the same
\* duration bucket, so distinct notes share a quantized context
TrainEvents ==
    {Event(60, 64, 64, 240, 0), Event(62, 64, 64, 240, 0), Event(60, 64, 64, 240, 480)}

\* the three-note source 60, 62, 64 with onsets 480 ticks apart
ScaleFile ==
    [readable |-> TRUE, ticks_per_beat |-> 480, time_signature |-> <<>>,
     events |-> <<Event(60, 64, 64, 240, 0), Event(62, 64, 64, 240, 480),
                  Event(64, 64, 64, 240, 960)>>]

\* the events of a file come track by track, so not always in time order
TrainFiles == Files(EventLists(TrainEvents, MaxTrainNotes), 480, {<<>>}) \cup {ScaleFile}
TrainWeights == {NoWeights} \cup {Some(w) : w \in SeqsUpTo({1, 2}, MaxFiles) \ {<<>>}}
TrainOrders == {1, 2, default_order}

TrainInit == InitWith(SeqsUpTo(TrainFiles, MaxFiles), TrainWeights, TrainOrders, {None})

TrainNext == RunStart \/ TrainFile

TrainSpec == TrainInit /\ [][TrainNext]_vars

\* The observations of the sources ing under weights w and order o: one
\* <<context, continuation, weight>> per source f, position i and length
\* L <= min(o, i), the context being the quantized window of the L notes
\* ending at i.  The set is indexed by <<f, i, L>> so that equal
\* observations stay apart.
Observations(ing, w, o) ==
    UNION {UNION {{<<<<f, i, L>>,
                     round_list(SubSeq(ing[f], i - L + 1, i)),
                     IF i = Len(ing[f]) THEN PyNone ELSE ing[f][i + 1],
                     w[f]>> :
            L \in 1..Min(o, i)} : i \in 1..Len(ing[f])} : f \in 1..Len(ing)}

RECURSIVE SumWeights(_)
SumWeights(S) ==
    IF S = {} THEN 0
    ELSE LET t == CHOOSE x \in S : TRUE IN t[4] + SumWeights(S \ {t})

\* C4: after training, the index is the n-gram table of the ingested
\* sources: its keys are the quantized windows of every length
\* 1..min(order, i) ending at every position i, each followed by the
\* unrounded next note or by None at the end of a source; no key and no
\* (key, continuation) pair occurs twice; and every count is the sum of the
\* weights of the observations of its pair.
C4_ReferenceTable ==
    (pc = "train" /\ order >= 1) =>
        LET obs == Observations(Ingested, weights.val, order)
            ObsOf(k, c) == {t \in obs : TupleEq(t[2], k) /\ PyEq(c, t[3])}
        IN  /\ Len(count_map) = Len(option_map)
            /\ \A e \in 1..Len(option_map) :
                  /\ TupleEq(option_map[e].key, count_map[e].key)
                  /\ option_map[e].val # <<>>
                  /\ Len(option_map[e].val) = Len(count_map[e].val)
                  /\ \A d \in 1..Len(option_map) :
                        d # e => ~TupleEq(option_map[d].key, option_map[e].key)
                  /\ \A p \in 1..Len(option_map[e].val) :
                        /\ \A q \in 1..Len(option_map[e].val) :
                              q # p => ~PyEq(option_map[e].val[p], option_map[e].val[q])
                        /\ ObsOf(option_map[e].key, option_map[e].val[p]) # {}
                        /\ count_map[e].val[p] =
                              SumWeights(ObsOf(option_map[e].key, option_map[e].val[p]))
            /\ \A t \in obs :
                  /\ Find(option_map, t[2]) # 0
                  /\ Index(option_map[Find(option_map, t[2])].val, t[3]) # 0

Pitch(k) == Note(k, 40, 40, 0, 0, 0, 0, 0)

\* the source 60, 62, 64 trained with order 3 and weight 1: (60) -> 62 : 1,
\* (60, 62) -> 64 : 1, and every context ending at 64 -> None only
C4_Witness ==
    /\ pc = "train"
    /\ idx = 1
    /\ files = <<ScaleFile>>
    /\ order = 3
    /\ weights.val = <<1>>
    /\ LET a == Find(option_map, <<Pitch(60)>>)
           b == Find(option_map, <<Pitch(60), Pitch(62)>>)
       IN  /\ a # 0
           /\ b # 0
           /\ Len(option_map[a].val) = 1
           /\ option_map[a].val[1].key = 62
           /\ option_map[a].val[1].next_note_delay = 480
           /\ count_map[a].val = <<1>>
           /\ Len(option_map[b].val) = 1
           /\ option_map[b].val[1].key = 64
           /\ count_map[b].val = <<1>>
    /\ \A e \in 1..Len(option_map) :
          option_map[e].key[Len(option_map[e].key)].key = 64
              => option_map[e].val = <<PyNone>>

\* the orders in which n sources can be ingested
Orders(n) == {f \in [1..n -> 1..n] : \A i, j \in 1..n : i # j => f[i] # f[j]}

RECURSIVE TrainedIn(_, _)
\* the maps after add_to_map on the first k ingested sources in the order pi
TrainedIn(pi, k) ==
    IF k = 0 THEN EmptyMaps
    ELSE add_to_map(TrainedIn(pi, k - 1), Ingested[pi[k]], weights.val[pi[k]], order)

\* every (context, continuation) -> count of a is one of b
MappingIncluded(a, b) ==
    \A e \in 1..Len(a.option_map) :
        LET k == a.option_map[e].key
            bo == Find(b.option_map, k)
            bc == Find(b.count_map, k)
            ac == Find(a.count_map, k)
        IN  /\ bo # 0
            /\ bc # 0
            /\ \A p \in 1..Len(a.option_map[e].val) :
                  LET q == Index(b.option_map[bo].val, a.option_map[e].val[p])
                  IN  /\ q # 0
                      /\ b.count_map[bc].val[q] = a.count_map[ac].val[p]

SameMapping(a, b) == MappingIncluded(a, b) /\ MappingIncluded(b, a)

Trained == [option_map |-> option_map, count_map |-> count_map]

-----------------------------------------------------------------------------
(* Termination of generate() without a max_measures cap *)

\* two pitches, all struck at tick 0
LivePitches == {60, 62}
LiveEvents == {Event(k, 64, 64, 240, 0) : k \in LivePitches}

\* the continuations one context can have: each pitch, and None
MaxOptions == Cardinality(LivePitches) + 1

\* the default weights, or the weights 1, 2, ... for MaxFiles sources
LiveWeights == {NoWeights, Some([i \in 1..MaxFiles |-> i])}

LiveInit ==
    InitWith(SeqsUpTo(Files(OrderedEventLists(LiveEvents, MaxTrainNotes), 480, {<<>>}),
                      MaxFiles),
             LiveWeights, {2}, {None})

LiveNext == RunStart \/ TrainFile \/ GenerateStart \/ GenerateStepTail \/ WriteToFile

\* the contexts the main loop can sample from more than once: the
\* quantized windows of order = 2 notes of the two pitches
LiveContexts == [1..2 -> {Pitch(k) : k \in LivePitches}]

\* the iteration that samples position p of the continuations of context k
SampleAt(k, p) ==
    /\ TupleEq(round_list(current), k)
    /\ max_measures.is_none
    /\ Iteration(TRUE, {p})

\* The main loop keeps iterating, and pick() is fair: a continuation of
\* positive weight that is available again and again is chosen again and
\* again.
LiveSpec ==
    /\ LiveInit
    /\ [][LiveNext]_vars
    /\ WF_vars(GenerateStepTail)
    /\ \A k \in LiveContexts : \A p \in 1..MaxOptions : SF_vars(SampleAt(k, p))

\* C10: without a max_measures cap and with positive weights, the main loop
\* of generate() is left, and generate() returns, in every run in which
\* pick() is fair.
C10_GenerateReturns == (pc = "loop") ~> (pc = "write")

\* a return by the terminal marker from a context that could also have
\* continued with a note leading back to the same context
C10_Witness ==
    /\ pc = "write"
    /\ exit_by = "terminal"
    /\ order = 2
    /\ Len(current) = 2
    /\ PyEq(current[1], current[2])
    /\ LET k == Find(option_map, round_list(current))
       IN  /\ k # 0
           /\ \E p \in 1..Len(option_map[k].val) :
                 /\ PyEq(current[2], option_map[k].val[p])
                 /\ count_map[k].val[p] > 0

=============================================================================
